---- MODULE Spec2Model ----
(***************************************************************************)
(* Coordinate converter (src/main.py): the parameter file, the Helmert     *)
(* transformation GSK_2011 with its one composed pair, the Markdown report *)
(* and the two HTTP endpoints, as run by one or more server processes that *)
(* share the working directory (parameters.json, converted.csv).           *)
(*                                                                         *)
(* Frame names are written in Latin letters: "SK-42" is the source's       *)
(* "СК-42", "PZ-90.11" is "ПЗ-90.11", "GSK-2011" is "ГСК-2011".            *)
(*                                                                         *)
(* Numbers are exact decimals: [e |-> k, d |-> limbs] is the number        *)
(* SUM d[i] * Base^(i-1-k), limbs little-endian, all of the number's sign, *)
(* without leading or trailing zero limbs, so that equal numbers are equal *)
(* records.  The source computes in binary floating point; the model keeps *)
(* the arithmetic the source writes and leaves the rounding out.           *)
(***************************************************************************)
EXTENDS Integers, Sequences, FiniteSets, TLC

\* ------------------------------------------------------------ bounds

\* Longest batch of an HTTP request.
MaxRows == 2

\* Longest batch handed to generate_markdown_report in a direct call.
MaxReportRows == 12

\* ------------------------------------------------- exact decimal numbers

Base == 10 * 10 * 10

Max(a, b) == IF a >= b THEN a ELSE b

Min(a, b) == IF a <= b THEN a ELSE b

\* Carry propagation over limbs d[i..], with incoming carry c: limbs in
\* 0..Base-1 and a last carry of 0 (the number is >= 0) or -1 (it is < 0).
RECURSIVE Carry(_, _, _)
Carry(d, i, c) ==
    IF i > Len(d)
    THEN IF c = 0 \/ c = -1 THEN [digits |-> <<>>, carry |-> c]
         ELSE LET r == Carry(d, i, c \div Base)
              IN  [digits |-> <<c % Base>> \o r.digits, carry |-> r.carry]
    ELSE LET s == d[i] + c
             r == Carry(d, i + 1, s \div Base)
         IN  [digits |-> <<s % Base>> \o r.digits, carry |-> r.carry]

RECURSIVE StripHigh(_)
StripHigh(d) ==
    IF d # <<>> /\ d[Len(d)] = 0 THEN StripHigh(SubSeq(d, 1, Len(d) - 1)) ELSE d

RECURSIVE StripLow(_)
StripLow(v) ==
    IF v.d = <<>> THEN [e |-> 0, d |-> <<>>]
    ELSE IF v.e > 0 /\ v.d[1] = 0 THEN StripLow([e |-> v.e - 1, d |-> Tail(v.d)])
    ELSE v

\* The canonical record of the number that the (arbitrary integer) limbs denote.
Norm(v) ==
    LET p == Carry(v.d, 1, 0)
        n == Carry([i \in 1..Len(v.d) |-> 0 - v.d[i]], 1, 0)
        mag == IF p.carry = 0 THEN p.digits
               ELSE [i \in 1..Len(n.digits) |-> 0 - n.digits[i]]
    IN  StripLow([e |-> v.e, d |-> StripHigh(mag)])

\* The number n * Base^(-e): Dec(23560, 1) is 23.56, Dec(-8423, 4) is -8.423e-09.
Dec(n, e) == Norm([e |-> e, d |-> <<n>>])

Zero == Dec(0, 0)

One == Dec(1, 0)

Limb(v, k, e) ==
    LET i == k - (e - v.e) IN IF i >= 1 /\ i <= Len(v.d) THEN v.d[i] ELSE 0

DAdd(a, b) ==
    LET e == Max(a.e, b.e)
        n == Max(Len(a.d) + (e - a.e), Len(b.d) + (e - b.e))
    IN  Norm([e |-> e, d |-> [k \in 1..n |-> Limb(a, k, e) + Limb(b, k, e)]])

RECURSIVE Conv(_, _, _, _)
Conv(a, b, k, i) ==
    IF i > Len(a) THEN 0
    ELSE (IF k + 1 - i >= 1 /\ k + 1 - i <= Len(b) THEN a[i] * b[k + 1 - i] ELSE 0)
         + Conv(a, b, k, i + 1)

DMul(a, b) ==
    IF a.d = <<>> \/ b.d = <<>> THEN [e |-> 0, d |-> <<>>]
    ELSE Norm([e |-> a.e + b.e,
               d |-> [k \in 1..(Len(a.d) + Len(b.d) - 1) |-> Conv(a.d, b.d, k, 1)]])

DNeg(a) == [e |-> a.e, d |-> [i \in 1..Len(a.d) |-> 0 - a.d[i]]]

\* A cell of a data frame is a number or text that is no number.
NonNumeric == [text |-> "abc"]

IsNumber(v) == "d" \in DOMAIN v

\* ------------------------------------------------------ parameter table

\* The dictionary create_default_parameters dumps: frame -> the seven
\* parameters of the transformation from that frame.
DefaultParameters ==
    [f \in {"SK-42", "SK-95", "PZ-90", "PZ-90.02", "PZ-90.11", "GSK-2011"} |->
        CASE f = "SK-42" ->
               [dX |-> Dec(23560, 1), dY |-> Dec(-140860, 1), dZ |-> Dec(-79770, 1),
                wx |-> Dec(-8423, 4), wy |-> Dec(-1678, 3), wz |-> Dec(-3849, 3),
                m |-> Dec(-227400, 2)]
          [] f = "SK-95" ->
               [dX |-> Dec(24460, 1), dY |-> Dec(-130800, 1), dZ |-> Dec(-81530, 1),
                wx |-> Dec(-8423, 4), wy |-> Dec(17240, 4), wz |-> Dec(-651100, 4),
                m |-> Dec(-227400, 2)]
          [] f = "PZ-90" ->
               [dX |-> Dec(-1443, 1), dY |-> Dec(142, 1), dZ |-> Dec(230, 1),
                wx |-> Dec(-8423, 4), wy |-> Dec(17240, 4), wz |-> Dec(-651100, 4),
                m |-> Dec(-227400, 2)]
          [] f = "PZ-90.02" ->
               [dX |-> Dec(-373, 1), dY |-> Dec(172, 1), dZ |-> Dec(210, 1),
                wx |-> Dec(-8423, 4), wy |-> Dec(17240, 4), wz |-> Dec(-20610, 4),
                m |-> Dec(-7400, 2)]
          [] f = "PZ-90.11" ->
               [dX |-> Dec(0, 0), dY |-> Dec(-14, 1), dZ |-> Dec(8, 1),
                wx |-> Dec(2724, 4), wy |-> Dec(92120, 5), wz |-> Dec(-256600, 5),
                m |-> Dec(600, 2)]
          [] OTHER ->
               [dX |-> Dec(0, 0), dY |-> Dec(0, 0), dZ |-> Dec(0, 0),
                wx |-> Dec(0, 0), wy |-> Dec(0, 0), wz |-> Dec(0, 0),
                m |-> Dec(0, 0)]]

\* The frames the store knows: the keys of the dumped dictionary.
KnownFrames == DOMAIN DefaultParameters

\* ------------------------------------------------------ Helmert formula

ScalarMat(s, M) == [i \in 1..3 |-> [j \in 1..3 |-> DMul(s, M[i][j])]]

MatVec(M, v) ==
    [i \in 1..3 |-> DAdd(DAdd(DMul(M[i][1], v[1]), DMul(M[i][2], v[2])),
                         DMul(M[i][3], v[3]))]

VecAdd(a, b) == [i \in 1..3 |-> DAdd(a[i], b[i])]

\* formula = (1 + m) * Matrix(...) @ Matrix([[X],[Y],[Z]]) + Matrix([[dX],[dY],[dZ]])
\* with the symbols replaced by the values of el (formula.subs(elements)).
formula(el) ==
    VecAdd(MatVec(ScalarMat(DAdd(One, el.m),
                            << <<One, el.wz, DNeg(el.wy)>>,
                               <<DNeg(el.wz), One, el.wx>>,
                               <<el.wy, DNeg(el.wx), One>> >>),
                  <<el.X, el.Y, el.Z>>),
           <<el.dX, el.dY, el.dZ>>)

\* elements_const with the stored ppm value used as it is.
elements_const_ppm(param) ==
    [dX |-> param.dX, dY |-> param.dY, dZ |-> param.dZ,
     wx |-> param.wx, wy |-> param.wy, wz |-> param.wz,
     m |-> param.m]

\* elements_const: the source frame's parameters, m scaled from ppm.
elements_const(param) ==
    [dX |-> param.dX, dY |-> param.dY, dZ |-> param.dZ,
     wx |-> param.wx, wy |-> param.wy, wz |-> param.wz,
     m |-> DMul(param.m, Dec(1, 2))]

\* elements = {X: row["X"], Y: row["Y"], Z: row["Z"], **elements_const}
elements(row, ec) ==
    [X |-> row.X, Y |-> row.Y, Z |-> row.Z,
     dX |-> ec.dX, dY |-> ec.dY, dZ |-> ec.dZ,
     wx |-> ec.wx, wy |-> ec.wy, wz |-> ec.wz, m |-> ec.m]

\* float(results_vector[k]) fails when a coordinate of the row is no number:
\* the diagonal of the matrix is never zero, so the symbol stays in the result.
RowIsNumeric(row) == IsNumber(row.X) /\ IsNumber(row.Y) /\ IsNumber(row.Z)

\* The list appended to `transformed` for one row.
transformed_row(row, ec) ==
    LET results_vector == formula(elements(row, ec))
    IN  [Name |-> row.Name, X |-> results_vector[1], Y |-> results_vector[2],
         Z |-> results_vector[3]]

\* ------------------------------------------------------------- report

Sign(v) == IF v.d = <<>> THEN 0 ELSE IF v.d[Len(v.d)] > 0 THEN 1 ELSE -1

\* v rounded to k limbs after the point, ties to even: "%.6f" is Round(v, 2).
Round(v, k) ==
    IF v.e <= k THEN v
    ELSE LET n == v.e - k
             s == Sign(v)
             abs(i) == IF i >= 1 /\ i <= Len(v.d) THEN s * v.d[i] ELSE 0
             up == \/ abs(n) > Base \div 2
                   \/ /\ abs(n) = Base \div 2
                      /\ \/ \E i \in 1..(n - 1) : abs(i) # 0
                         \/ abs(n + 1) % 2 = 1
         IN  Norm([e |-> k,
                   d |-> [i \in 1..Max(Len(v.d) - n, 1) |->
                             s * (abs(n + i) + (IF i = 1 /\ up THEN 1 ELSE 0))]])

Fmt6(v) == Round(v, 2)

\* The numbers written in the three literal rows of section 2 of the report,
\*   0.9999997726 X - 3.8489991247374e-6 Y + 1.6779996184228e-6 Z + 23.56
\*   3.8489991247374e-6 X + 0.9999997726 Y - 8.4229980846098e-9 Z - 140.86
\*   -1.6779996184228e-6 X + 8.4229980846098e-9 Y + 0.9999997726 Z - 79.77
\* each row as <<coefficient of X, of Y, of Z, free term>>: the text is a
\* string literal, the same whatever source_system is.
SubstitutedFormula ==
    LET a == [e |-> 4, d |-> <<600, 772, 999, 999>>]
        b == [e |-> 7, d |-> <<400, 737, 124, 999, 848, 3>>]
        c == [e |-> 7, d |-> <<800, 422, 618, 999, 677, 1>>]
        g == [e |-> 8, d |-> <<800, 609, 84, 998, 422, 8>>]
    IN  << <<a, DNeg(b), c, Dec(23560, 1)>>,
           <<b, a, DNeg(g), Dec(-140860, 1)>>,
           <<DNeg(c), g, a, Dec(-79770, 1)>> >>

\* range(min(10, len(df_before)))
TableLimit == 10

RequiredColumns == {"Name", "X", "Y", "Z"}

RECURSIVE MaxOf(_, _)
MaxOf(ns, i) == IF i > Len(ns) THEN 0 ELSE Max(ns[i], MaxOf(ns, i + 1))

RECURSIVE LimbSum(_, _, _, _)
LimbSum(vs, k, e, i) ==
    IF i > Len(vs) THEN 0 ELSE Limb(vs[i], k, e) + LimbSum(vs, k, e, i + 1)

\* The sum of a sequence of numbers, limb by limb.
DSum(vs) ==
    LET e == MaxOf([i \in 1..Len(vs) |-> vs[i].e], 1)
        n == MaxOf([i \in 1..Len(vs) |-> Len(vs[i].d) + (e - vs[i].e)], 1)
    IN  Norm([e |-> e, d |-> [k \in 1..n |-> LimbSum(vs, k, e, 1)]])

\* Statistics over the rows the table shows only.
Statistics_head(rows) ==
    LET n == Min(TableLimit, Len(rows))
    IN  [count |-> n,
         sum |-> [c \in {"X", "Y", "Z"} |-> DSum([i \in 1..n |-> rows[i][c]])],
         sumsq |-> [c \in {"X", "Y", "Z"} |->
                      DSum([i \in 1..n |-> DMul(rows[i][c], rows[i][c])])]]

\* What mean() and std() of the three columns of df_after are computed from:
\* every row of the frame (the count, the sums, the sums of squares).
Statistics(rows) ==
    [count |-> Len(rows),
     sum |-> [c \in {"X", "Y", "Z"} |-> DSum([i \in 1..Len(rows) |-> rows[i][c]])],
     sumsq |-> [c \in {"X", "Y", "Z"} |->
                  DSum([i \in 1..Len(rows) |-> DMul(rows[i][c], rows[i][c])])]]

NoReport == [ok |-> FALSE, error |-> "", report |-> <<>>]

\* generate_markdown_report: the report, or the exception it ends with.
generate_markdown_report(df_before, df_after, source_system, target_system) ==
    LET nb == Len(df_before.rows)
        na == Len(df_after.rows)
        n == Min(TableLimit, nb)
        err(e) == [ok |-> FALSE, error |-> e, report |-> <<>>]
        numeric(rows, k) == \A i \in 1..Min(k, Len(rows)) : RowIsNumeric(rows[i])
    IN  IF nb = 0 \/ na = 0 THEN err("IndexError")
        ELSE IF ~({"X", "Y", "Z"} \subseteq df_before.columns) THEN err("KeyError")
        ELSE IF ~({"X", "Y", "Z"} \subseteq df_after.columns) THEN err("KeyError")
        ELSE IF ~numeric(df_before.rows, 1) \/ ~numeric(df_after.rows, 1)
             THEN err("TypeError")
        ELSE IF "Name" \notin df_before.columns /\ n >= 1 THEN err("KeyError")
        ELSE IF n > na THEN err("IndexError")
        ELSE IF ~numeric(df_before.rows, n) \/ ~numeric(df_after.rows, n)
             THEN err("ValueError")
        ELSE IF ~numeric(df_after.rows, na) THEN err("TypeError")
        ELSE [ok |-> TRUE, error |-> "",
              report |-> <<
                [source |-> source_system,
                 target |-> target_system,
                 substituted |-> SubstitutedFormula,
                 example |->
                    [X |-> Fmt6(df_before.rows[1].X), Y |-> Fmt6(df_before.rows[1].Y),
                     Z |-> Fmt6(df_before.rows[1].Z),
                     X1 |-> Fmt6(df_after.rows[1].X), Y1 |-> Fmt6(df_after.rows[1].Y),
                     Z1 |-> Fmt6(df_after.rows[1].Z)],
                 table |->
                    [i \in 1..n |->
                        [Name |-> df_before.rows[i].Name,
                         X |-> Fmt6(df_before.rows[i].X), Y |-> Fmt6(df_before.rows[i].Y),
                         Z |-> Fmt6(df_before.rows[i].Z),
                         X1 |-> Fmt6(df_after.rows[i].X), Y1 |-> Fmt6(df_after.rows[i].Y),
                         Z1 |-> Fmt6(df_after.rows[i].Z)]],
                 statistics |-> Statistics(df_after.rows)] >>]

\* -------------------------------------------------------------- inputs

\* The frame names a request may carry: the store's, the two the UI offers
\* without parameters (src/app.py) and one nobody knows.
FrameNames == KnownFrames \cup {"WGS84_G1150", "ITRF-2008", "Mars"}

RowPool ==
    { [Name |-> "A", X |-> Dec(1000000, 0), Y |-> Dec(2000000, 0), Z |-> Dec(3000000, 0)],
      [Name |-> "B", X |-> Dec(123456789, 1), Y |-> Dec(-2, 0), Z |-> Zero],
      [Name |-> "C", X |-> NonNumeric, Y |-> Dec(5, 0), Z |-> Dec(7, 1)] }

Batches(n) == UNION { [1..k -> RowPool] : k \in 0..n }

Endpoints == {"convert", "report"}

Request(ep, ok, cols, rows, src, tgt) ==
    [endpoint |-> ep, filename_ok |-> ok, df |-> [columns |-> cols, rows |-> rows],
     source_system |-> src, target_system |-> tgt]

NoRequest == Request("", FALSE, {}, <<>>, "", "")

\* Uploads with the four columns, uploads lacking some, and uploads whose
\* file name has another extension.
Requests ==
    { Request(ep, TRUE, RequiredColumns, rows, src, tgt) :
        ep \in Endpoints, rows \in Batches(MaxRows), src \in FrameNames,
        tgt \in FrameNames }
    \cup
    { Request(ep, TRUE, cols, rows, src, "GSK-2011") :
        ep \in Endpoints, rows \in Batches(1), src \in {"SK-42", "Mars"},
        cols \in {{"Name", "X", "Y"}, {"X", "Y", "Z"}, {"Name"}, {}} }
    \cup
    { Request(ep, FALSE, RequiredColumns, rows, "SK-42", "GSK-2011") :
        ep \in Endpoints, rows \in Batches(1) }

\* ---------------------------------------------------------------- state

\* The server processes: each serves one request at a time.
Workers == {"w1", "w2"}

VARIABLES
    paramFile,      \* parameters.json in the shared working directory
    convertedFile,  \* converted.csv in the shared working directory
    req,            \* per worker: the request being served
    pc,             \* per worker: where its handler stands
    stack,          \* per worker: the activations of GSK_2011, innermost last
    result_df,      \* per worker: what GSK_2011 returned to the handler
    resp,           \* per worker: the HTTP response
    call,           \* a direct call of generate_markdown_report: its arguments
    out             \* ... and what it returned

vars == <<paramFile, convertedFile, req, pc, stack, result_df, resp, call, out>>

NoFile == [exists |-> FALSE, content |-> <<>>]

NoFrame == [columns |-> {}, rows |-> <<>>]

NoResp == [status |-> 0, media |-> "", body |-> <<>>, report |-> <<>>, error |-> ""]

NoCall == [df_before |-> NoFrame, df_after |-> NoFrame, source_system |-> "",
           target_system |-> ""]

\* An activation of GSK_2011(sk1, sk2, parameters_path, df, save_path).
Activation(sk1, sk2, df, save_path) ==
    [sk1 |-> sk1, sk2 |-> sk2, df |-> df, save_path |-> save_path,
     phase |-> "entry", ec |-> <<>>, transformed |-> <<>>, i |-> 1,
     df_result |-> NoFrame]

Top(w) == stack[w][Len(stack[w])]

SetTop(w, f) == [stack EXCEPT ![w] = [@ EXCEPT ![Len(@)] = f]]

InitWorkers(r1, r2) ==
    /\ paramFile = NoFile
    /\ convertedFile = NoFile
    /\ req = [w \in Workers |-> IF w = "w1" THEN r1 ELSE r2]
    /\ pc = [w \in Workers |->
                IF (IF w = "w1" THEN r1 ELSE r2) = NoRequest THEN "off" ELSE "start"]
    /\ stack = [w \in Workers |-> <<>>]
    /\ result_df = [w \in Workers |-> NoFrame]
    /\ resp = [w \in Workers |-> NoResp]
    /\ call = NoCall
    /\ out = NoReport

\* One process, one request.
Init == \E r \in Requests : InitWorkers(r, NoRequest)

\* ------------------------------------------------------------- handlers

\* The handler's `except Exception` turns every exception of the try block
\* into HTTPException(500); nothing of the request's work is returned.
Fail(w, status, error) ==
    /\ pc' = [pc EXCEPT ![w] = "done"]
    /\ stack' = [stack EXCEPT ![w] = <<>>]
    /\ resp' = [resp EXCEPT ![w] = [NoResp EXCEPT !.status = status, !.error = error]]

\* any() in place of all().
RequiredColumnsPresent_any(df) == \E col \in RequiredColumns : col \in df.columns

\* all(col in df.columns for col in required_columns)
RequiredColumnsPresent(df) == \A col \in RequiredColumns : col \in df.columns

\* File name check, upload read, column check: the start of both handlers.
\* The 400 for the file name is raised before the try block; the 400 for the
\* columns is raised inside it and leaves as a 500.
Validate(w) ==
    /\ pc[w] = "start"
    /\ IF ~req[w].filename_ok
       THEN Fail(w, 400, "HTTPException")
       ELSE IF ~RequiredColumnsPresent(req[w].df)
       THEN Fail(w, 500, "HTTPException")
       ELSE /\ pc' = [pc EXCEPT ![w] = "create_parameters"]
            /\ UNCHANGED <<stack, resp>>
    /\ UNCHANGED <<paramFile, convertedFile, req, result_df, call, out>>

\* create_default_parameters, open(file_path, 'w'): the file is truncated.
create_default_parameters_open(w) ==
    /\ pc[w] = "create_parameters"
    /\ paramFile' = [exists |-> TRUE, content |-> <<>>]
    /\ pc' = [pc EXCEPT ![w] = "dump_parameters"]
    /\ UNCHANGED <<convertedFile, req, stack, result_df, resp, call, out>>

\* create_default_parameters, json.dump and the end of the with block: the
\* text (one buffer) reaches the file.  Then the handler calls GSK_2011; only
\* the convert handler passes save_path.
create_default_parameters_dump(w) ==
    /\ pc[w] = "dump_parameters"
    /\ paramFile' = [exists |-> TRUE, content |-> <<DefaultParameters>>]
    /\ pc' = [pc EXCEPT ![w] = "gsk"]
    /\ stack' = [stack EXCEPT ![w] =
                    <<Activation(req[w].source_system, req[w].target_system,
                                 req[w].df, req[w].endpoint = "convert")>>]
    /\ UNCHANGED <<convertedFile, req, result_df, resp, call, out>>

\* A test of the source frame alone.
IsComposedPair_source(sk1, sk2) == sk1 = "SK-95"

\* if sk1 == "СК-95" and sk2 == "СК-42"
IsComposedPair(sk1, sk2) == sk1 = "SK-95" /\ sk2 = "SK-42"

\* The frame the composed pair goes through.
HopFrame == "PZ-90.11"

\* The composed pair: the first inner call, GSK_2011("СК-95", "ПЗ-90.11", df=df).
GSK_Compose(w) ==
    /\ pc[w] = "gsk"
    /\ Top(w).phase = "entry"
    /\ IsComposedPair(Top(w).sk1, Top(w).sk2)
    /\ stack' = [stack EXCEPT ![w] =
                    Append([@ EXCEPT ![Len(@)].phase = "hop1"],
                           Activation("SK-95", HopFrame, Top(w).df, FALSE))]
    /\ UNCHANGED <<paramFile, convertedFile, req, pc, result_df, resp, call, out>>

\* A lookup that falls back to the hub's parameters for an unknown frame.
load_parameters_default(file, sk1) ==
    IF ~file.exists THEN [ok |-> FALSE, error |-> "FileNotFoundError", ec |-> <<>>]
    ELSE IF file.content = <<>> THEN [ok |-> FALSE, error |-> "JSONDecodeError", ec |-> <<>>]
    ELSE IF sk1 \notin DOMAIN file.content[1]
         THEN [ok |-> TRUE, error |-> "", ec |-> <<elements_const(file.content[1]["GSK-2011"])>>]
    ELSE [ok |-> TRUE, error |-> "", ec |-> <<elements_const(file.content[1][sk1])>>]

\* json.load of the parameter file, the check of sk1 and elements_const.
load_parameters(file, sk1) ==
    IF ~file.exists THEN [ok |-> FALSE, error |-> "FileNotFoundError", ec |-> <<>>]
    ELSE IF file.content = <<>> THEN [ok |-> FALSE, error |-> "JSONDecodeError", ec |-> <<>>]
    ELSE IF sk1 \notin DOMAIN file.content[1]
         THEN [ok |-> FALSE, error |-> "ValueError", ec |-> <<>>]
    ELSE [ok |-> TRUE, error |-> "", ec |-> <<elements_const(file.content[1][sk1])>>]

GSK_Load(w) ==
    /\ pc[w] = "gsk"
    /\ Top(w).phase = "entry"
    /\ ~IsComposedPair(Top(w).sk1, Top(w).sk2)
    /\ LET r == load_parameters(paramFile, Top(w).sk1)
       IN  IF r.ok
           THEN /\ stack' = SetTop(w, [Top(w) EXCEPT !.phase = "loop", !.ec = r.ec])
                /\ UNCHANGED <<pc, resp>>
           ELSE Fail(w, 500, r.error)
    /\ UNCHANGED <<paramFile, convertedFile, req, result_df, call, out>>

\* A loop that leaves out the rows it cannot convert.
row_outcome_skip(df, row, ec) ==
    IF ~({"X", "Y", "Z"} \subseteq df.columns)
    THEN [ok |-> FALSE, error |-> "KeyError", rows |-> <<>>]
    ELSE IF ~RowIsNumeric(row) THEN [ok |-> TRUE, error |-> "", rows |-> <<>>]
    ELSE IF "Name" \notin df.columns THEN [ok |-> FALSE, error |-> "KeyError", rows |-> <<>>]
    ELSE [ok |-> TRUE, error |-> "", rows |-> <<transformed_row(row, ec)>>]

\* One turn of `for _, row in df.iterrows()`: the row appended, or the
\* exception that ends the call.
row_outcome(df, row, ec) ==
    IF ~({"X", "Y", "Z"} \subseteq df.columns)
    THEN [ok |-> FALSE, error |-> "KeyError", rows |-> <<>>]
    ELSE IF ~RowIsNumeric(row) THEN [ok |-> FALSE, error |-> "TypeError", rows |-> <<>>]
    ELSE IF "Name" \notin df.columns THEN [ok |-> FALSE, error |-> "KeyError", rows |-> <<>>]
    ELSE [ok |-> TRUE, error |-> "", rows |-> <<transformed_row(row, ec)>>]

\* A list built by inserting at the front.
insert_front(transformed, rows) == rows \o transformed

\* transformed.append([...])
append(transformed, rows) == transformed \o rows

GSK_Row(w) ==
    /\ pc[w] = "gsk"
    /\ Top(w).phase = "loop"
    /\ Top(w).i <= Len(Top(w).df.rows)
    /\ LET f == Top(w)
           r == row_outcome(f.df, f.df.rows[f.i], f.ec[1])
       IN  IF r.ok
           THEN /\ stack' = SetTop(w, [f EXCEPT !.transformed = append(@, r.rows),
                                                !.i = @ + 1])
                /\ UNCHANGED <<pc, resp>>
           ELSE Fail(w, 500, r.error)
    /\ UNCHANGED <<paramFile, convertedFile, req, result_df, call, out>>

\* pd.DataFrame(transformed, columns=[...]) and, with save_path, to_csv.
GSK_Finish(w) ==
    /\ pc[w] = "gsk"
    /\ Top(w).phase = "loop"
    /\ Top(w).i > Len(Top(w).df.rows)
    /\ LET df_result == [columns |-> RequiredColumns, rows |-> Top(w).transformed]
       IN  /\ stack' = SetTop(w, [Top(w) EXCEPT !.phase = "return",
                                                !.df_result = df_result])
           /\ convertedFile' = IF Top(w).save_path
                               THEN [exists |-> TRUE, content |-> df_result.rows]
                               ELSE convertedFile
    /\ UNCHANGED <<paramFile, req, pc, result_df, resp, call, out>>

\* return df_result: to the handler, or to the composed call, which makes
\* its second inner call with it or returns it in turn.
GSK_Return(w) ==
    /\ pc[w] = "gsk"
    /\ Top(w).phase = "return"
    /\ LET r == Top(w).df_result
           n == Len(stack[w])
       IN  IF n = 1
           THEN /\ result_df' = [result_df EXCEPT ![w] = r]
                /\ stack' = [stack EXCEPT ![w] = <<>>]
                /\ pc' = [pc EXCEPT ![w] = "respond"]
           ELSE /\ stack' = [stack EXCEPT ![w] =
                      IF @[n - 1].phase = "hop1"
                      THEN Append([i \in 1..(n - 1) |->
                                      IF i = n - 1 THEN [@[i] EXCEPT !.phase = "hop2"]
                                      ELSE @[i]],
                                  Activation(HopFrame, "SK-42", r, FALSE))
                      ELSE [i \in 1..(n - 1) |->
                               IF i = n - 1
                               THEN [@[i] EXCEPT !.phase = "return", !.df_result = r]
                               ELSE @[i]]]
                /\ UNCHANGED <<result_df, pc>>
    /\ UNCHANGED <<paramFile, convertedFile, req, resp, call, out>>

\* The end of the handlers: the CSV of result_df, or the report of df and
\* result_df.
Respond(w) ==
    /\ pc[w] = "respond"
    /\ IF req[w].endpoint = "convert"
       THEN /\ resp' = [resp EXCEPT ![w] =
                           [NoResp EXCEPT !.status = 200, !.media = "text/csv",
                                          !.body = result_df[w].rows]]
            /\ pc' = [pc EXCEPT ![w] = "done"]
            /\ UNCHANGED stack
       ELSE LET r == generate_markdown_report(req[w].df, result_df[w],
                                              req[w].source_system, req[w].target_system)
            IN  IF r.ok
                THEN /\ resp' = [resp EXCEPT ![w] =
                                    [NoResp EXCEPT !.status = 200,
                                                   !.media = "text/markdown",
                                                   !.report = r.report]]
                     /\ pc' = [pc EXCEPT ![w] = "done"]
                     /\ UNCHANGED stack
                ELSE Fail(w, 500, r.error)
    /\ UNCHANGED <<paramFile, convertedFile, req, result_df, call, out>>

Next ==
    \E w \in Workers :
        \/ Validate(w)
        \/ create_default_parameters_open(w)
        \/ create_default_parameters_dump(w)
        \/ GSK_Compose(w)
        \/ GSK_Load(w)
        \/ GSK_Row(w)
        \/ GSK_Finish(w)
        \/ GSK_Return(w)
        \/ Respond(w)

Spec == Init /\ [][Next]_vars

\* ------------------------------------------------- two server processes

\* Requests that succeed when served alone.
ConcRequests ==
    { Request(ep, TRUE, RequiredColumns, rows, p[1], p[2]) :
        ep \in Endpoints,
        rows \in {<< [Name |-> "A", X |-> Dec(1000000, 0), Y |-> Dec(2000000, 0),
                      Z |-> Dec(3000000, 0)] >>},
        p \in {<<"SK-42", "GSK-2011">>, <<"SK-95", "SK-42">>} }

\* Two processes of the server, each with a request, in one working directory.
InitConc == \E r1 \in ConcRequests : \E r2 \in ConcRequests : InitWorkers(r1, r2)

SpecConc == InitConc /\ [][Next]_vars

\* ------------------------------- direct calls of generate_markdown_report

ReportRow(i) ==
    [Name |-> ToString(i), X |-> Dec(100000000 + 1001 * i, 1),
     Y |-> Dec(200000000 - 7 * i, 1), Z |-> Dec(300000000 + i, 1)]

\* n rows before the transformation, and n rows as GSK_2011 returns them.
ReportBefore(n) == [columns |-> RequiredColumns, rows |-> [i \in 1..n |-> ReportRow(i)]]

ReportAfter(n, src) ==
    [columns |-> RequiredColumns,
     rows |-> [i \in 1..n |->
                  transformed_row(ReportRow(i), elements_const(DefaultParameters[src]))]]

ReportFrames ==
    [src \in {"SK-42", "SK-95"} |->
        [before |-> [n \in 0..MaxReportRows |-> ReportBefore(n)],
         after |-> [n \in 0..MaxReportRows |-> ReportAfter(n, src)]]]

ReportCalls ==
    { [df_before |-> ReportFrames[src].before[nb], df_after |-> ReportFrames[src].after[na],
       source_system |-> src, target_system |-> "GSK-2011"] :
        nb \in 0..MaxReportRows, na \in 0..MaxReportRows, src \in {"SK-42", "SK-95"} }

InitReport ==
    /\ \E c \in ReportCalls : call = c
    /\ out = NoReport
    /\ paramFile = NoFile
    /\ convertedFile = NoFile
    /\ req = [w \in Workers |-> NoRequest]
    /\ pc = [w \in Workers |-> "off"]
    /\ stack = [w \in Workers |-> <<>>]
    /\ result_df = [w \in Workers |-> NoFrame]
    /\ resp = [w \in Workers |-> NoResp]

\* generate_markdown_report called with the arguments of `call`.
CallReport ==
    /\ call # NoCall
    /\ out = NoReport
    /\ out' = generate_markdown_report(call.df_before, call.df_after,
                                       call.source_system, call.target_system)
    /\ UNCHANGED <<paramFile, convertedFile, req, pc, stack, result_df, resp, call>>

NextReport == CallReport

SpecReport == InitReport /\ [][NextReport]_vars

\* ---------------------------------------------------------------- claims

\* The activations of GSK_2011 that stand at their return statement.
Returning == { f \in UNION { {stack[w][k] : k \in 1..Len(stack[w])} : w \in Workers } :
                 f.phase = "return" }

SpecialPair(f) == f.sk1 = "SK-95" /\ f.sk2 = "SK-42"

\* The transformation as the specification writes it:
\* scale * R(wx, wy, wz) * [x, y, z] + [dx, dy, dz], scale = 1 + scale_ppm * 1e-6.
SpecScale(p) == DAdd(One, DMul(p.m, Dec(1, 2)))

SpecRotated(p, r) ==
    << DAdd(r.X, DAdd(DMul(p.wz, r.Y), DNeg(DMul(p.wy, r.Z)))),
       DAdd(DNeg(DMul(p.wz, r.X)), DAdd(r.Y, DMul(p.wx, r.Z))),
       DAdd(DMul(p.wy, r.X), DAdd(DNeg(DMul(p.wx, r.Y)), r.Z)) >>

SpecHelmert(p, r) ==
    [Name |-> r.Name,
     X |-> DAdd(DMul(SpecScale(p), SpecRotated(p, r)[1]), p.dX),
     Y |-> DAdd(DMul(SpecScale(p), SpecRotated(p, r)[2]), p.dY),
     Z |-> DAdd(DMul(SpecScale(p), SpecRotated(p, r)[3]), p.dZ)]

SameCoordinates(a, b) == a.X = b.X /\ a.Y = b.Y /\ a.Z = b.Z

\* C1: a direct (non-composed) call of GSK_2011 returns, for every row, exactly
\* scale * R * [x,y,z] + [dx,dy,dz] with the stored parameters of the source
\* frame sk1, the stored ppm value multiplied by 1e-6 once.
C1_DirectHelmert ==
    \A f \in Returning :
        ~SpecialPair(f) =>
            /\ f.sk1 \in KnownFrames
            /\ \A i \in 1..Len(f.df_result.rows) :
                  /\ i <= Len(f.df.rows)
                  /\ SameCoordinates(f.df_result.rows[i],
                                     SpecHelmert(DefaultParameters[f.sk1], f.df.rows[i]))

\* C1 witness: SK-42 -> GSK-2011 of the point (1000000, 2000000, 3000000) has
\* returned, and X' is 1000020.668601 to six decimals.
C1_Witness ==
    \E f \in Returning :
        /\ f.sk1 = "SK-42" /\ f.sk2 = "GSK-2011"
        /\ Len(f.df_result.rows) = 1
        /\ f.df.rows[1].X = Dec(1000000, 0)
        /\ Fmt6(f.df_result.rows[1].X) = [e |-> 2, d |-> <<601, 668, 20, 0, 1>>]

Active(w) == pc[w] # "off"

WellFormed(w) == req[w].filename_ok /\ RequiredColumns \subseteq req[w].df.columns

\* One direct application to every row, by the specification's formula.
DirectRows(sk, rows) ==
    [i \in 1..Len(rows) |-> SpecHelmert(DefaultParameters[sk], rows[i])]

\* C2: a call of GSK_2011 that returns, direct or composed, returns as many
\* rows as it was given, row i being the transform of input row i and carrying
\* its Name; the CSV answered by the convert handler has the same rows.
C2_RowsInOrder ==
    /\ \A f \in Returning :
          /\ Len(f.df_result.rows) = Len(f.df.rows)
          /\ \A i \in 1..Len(f.df.rows) :
                /\ f.df_result.rows[i].Name = f.df.rows[i].Name
                /\ f.df_result.rows[i] =
                      IF SpecialPair(f)
                      THEN SpecHelmert(DefaultParameters["PZ-90.11"],
                                       SpecHelmert(DefaultParameters["SK-95"], f.df.rows[i]))
                      ELSE SpecHelmert(DefaultParameters[f.sk1], f.df.rows[i])
    /\ \A w \in Workers :
          (resp[w].status = 200 /\ req[w].endpoint = "convert") =>
              /\ Len(resp[w].body) = Len(req[w].df.rows)
              /\ \A i \in 1..Len(req[w].df.rows) :
                    resp[w].body[i].Name = req[w].df.rows[i].Name

\* C2 witness: the composed call returns two rows with different names.
C2_Witness ==
    \E f \in Returning :
        /\ SpecialPair(f)
        /\ Len(f.df.rows) = 2
        /\ f.df.rows[1].Name # f.df.rows[2].Name
        /\ f.df.rows[1].X # f.df.rows[2].X
        /\ Len(f.df_result.rows) = 2

\* C3: a request whose source frame has no entry in the parameter store ends
\* with an error: no row is transformed, nothing is returned to the handler or
\* the client, and converted.csv is not written.
C3_UnknownSourceFails ==
    \A w \in Workers :
        (Active(w) /\ req[w].source_system \notin KnownFrames) =>
            /\ resp[w].status # 200
            /\ resp[w].body = <<>>
            /\ resp[w].report = <<>>
            /\ result_df[w] = NoFrame
            /\ ~convertedFile.exists
            /\ \A k \in 1..Len(stack[w]) :
                  /\ stack[w][k].transformed = <<>>
                  /\ stack[w][k].phase = "entry"
            /\ pc[w] = "done" => (resp[w].status >= 400 /\ resp[w].error # "")

\* C3 witness: a well-formed upload of a numeric row with source "Mars" has
\* ended with the ValueError of GSK_2011.
C3_Witness ==
    \E w \in Workers :
        /\ pc[w] = "done"
        /\ WellFormed(w)
        /\ req[w].source_system = "Mars"
        /\ Len(req[w].df.rows) >= 1
        /\ RowIsNumeric(req[w].df.rows[1])
        /\ resp[w].status = 500
        /\ resp[w].error = "ValueError"

\* C4 as stated, for an upload with at least one row and two different
\* frames: a pair with neither side the hub GSK-2011, other than
\* (SK-95, SK-42), is rejected and never answered with a transformed batch.
C4_UnsupportedPairRejected ==
    \A w \in Workers :
        ( /\ Active(w)
          /\ Len(req[w].df.rows) >= 1
          /\ req[w].source_system # req[w].target_system
          /\ req[w].source_system # "GSK-2011"
          /\ req[w].target_system # "GSK-2011"
          /\ ~(req[w].source_system = "SK-95" /\ req[w].target_system = "SK-42") )
        => /\ resp[w].status # 200
           /\ resp[w].body = <<>>
           /\ resp[w].report = <<>>

\* C5 as stated, for an upload with at least one row: a request whose target
\* frame is neither the hub nor a frame with a parameter entry is rejected and
\* never yields an output batch.
C5_TargetValidated ==
    \A w \in Workers :
        ( /\ Active(w)
          /\ Len(req[w].df.rows) >= 1
          /\ req[w].target_system \notin KnownFrames )
        => /\ resp[w].status # 200
           /\ resp[w].body = <<>>
           /\ resp[w].report = <<>>

\* C6: the composed call GSK_2011("SK-95", "SK-42", batch) returns what two
\* successive direct applications return, SK-95 -> PZ-90.11 and then
\* PZ-90.11 -> SK-42, its inner calls are these two and take the batch and the
\* first call's result, and no other pair makes an inner call.
C6_ComposedIsChain ==
    /\ \A f \in Returning :
          SpecialPair(f) =>
              f.df_result.rows = DirectRows("PZ-90.11", DirectRows("SK-95", f.df.rows))
    /\ \A w \in Workers :
          /\ Len(stack[w]) <= 2
          /\ Len(stack[w]) >= 1 =>
                (stack[w][1].phase \in {"hop1", "hop2"} <=> Len(stack[w]) = 2)
          /\ Len(stack[w]) = 2 =>
                LET outer == stack[w][1]
                    inner == stack[w][2]
                IN  /\ SpecialPair(outer)
                    /\ ~inner.save_path
                    /\ IF outer.phase = "hop1"
                       THEN /\ inner.sk1 = "SK-95" /\ inner.sk2 = "PZ-90.11"
                            /\ inner.df = outer.df
                       ELSE /\ inner.sk1 = "PZ-90.11" /\ inner.sk2 = "SK-42"
                            /\ inner.df.rows = DirectRows("SK-95", outer.df.rows)

\* C6 witness: the composed call returns a non-empty batch, which is neither
\* the input nor one direct application to it.
C6_Witness ==
    \E f \in Returning :
        /\ SpecialPair(f)
        /\ Len(f.df.rows) >= 1
        /\ f.df_result.rows # f.df.rows
        /\ f.df_result.rows # DirectRows("SK-95", f.df.rows)
        /\ f.df_result.rows # DirectRows("PZ-90.11", f.df.rows)

\* C7 as stated: with requests served concurrently, no request reads
\* anything but the complete default table, and every request ends as it
\* does when served alone (each of these requests succeeds alone).
C7_StoreReadComplete ==
    \A w \in Workers :
        /\ resp[w].error # "JSONDecodeError"
        /\ pc[w] = "done" => resp[w].status = 200

HasBadRow(w) == \E k \in 1..Len(req[w].df.rows) : ~RowIsNumeric(req[w].df.rows[k])

\* C8: a batch with a row that cannot be transformed yields an error and no
\* output rows: no call returns, nothing reaches the handler or the client,
\* and converted.csv is not written.
C8_AllOrNothing ==
    \A w \in Workers :
        (Active(w) /\ HasBadRow(w)) =>
            /\ resp[w].status # 200
            /\ resp[w].body = <<>>
            /\ resp[w].report = <<>>
            /\ result_df[w] = NoFrame
            /\ ~convertedFile.exists
            /\ \A k \in 1..Len(stack[w]) : stack[w][k].phase # "return"
            /\ pc[w] = "done" => (resp[w].status >= 400 /\ resp[w].error # "")

\* C8 witness: a convert request whose first row is numeric and whose second
\* row is not has ended with the TypeError of the second row.
C8_Witness ==
    \E w \in Workers :
        /\ pc[w] = "done"
        /\ WellFormed(w)
        /\ req[w].endpoint = "convert"
        /\ req[w].source_system \in KnownFrames
        /\ Len(req[w].df.rows) = 2
        /\ RowIsNumeric(req[w].df.rows[1])
        /\ ~RowIsNumeric(req[w].df.rows[2])
        /\ resp[w].status = 500
        /\ resp[w].error = "TypeError"

\* C9: in both handlers an upload lacking one of Name, X, Y, Z is rejected
\* before anything else is done: the parameter file is not written, GSK_2011
\* is not called, and no batch or report is produced.
C9_MissingColumnsFirst ==
    \A w \in Workers :
        (Active(w) /\ req[w].filename_ok /\ ~(RequiredColumns \subseteq req[w].df.columns)) =>
            /\ ~paramFile.exists
            /\ ~convertedFile.exists
            /\ pc[w] \in {"start", "done"}
            /\ stack[w] = <<>>
            /\ result_df[w] = NoFrame
            /\ resp[w].status # 200
            /\ resp[w].body = <<>>
            /\ resp[w].report = <<>>
            /\ pc[w] = "done" => resp[w].status >= 400

\* C9 witness: a report request without the Z column has been rejected.
C9_Witness ==
    \E w \in Workers :
        /\ pc[w] = "done"
        /\ req[w].endpoint = "report"
        /\ req[w].filename_ok
        /\ req[w].df.columns = {"Name", "X", "Y"}
        /\ Len(req[w].df.rows) = 1
        /\ resp[w].status = 500

\* C10 as stated: generate_markdown_report called with batches of different
\* lengths fails and returns no report.
C10_MismatchRejected ==
    (out # NoReport /\ Len(call.df_before.rows) # Len(call.df_after.rows)) =>
        (~out.ok /\ out.report = <<>>)

\* What section 2 would show with the parameters stored for frame f put into
\* the formula of section 1: the coefficients of X, Y, Z and the translation
\* of each row.
SpecSubstituted(f) ==
    LET p == DefaultParameters[f]
        s == SpecScale(p)
    IN  << <<s, DMul(s, p.wz), DNeg(DMul(s, p.wy)), p.dX>>,
           <<DNeg(DMul(s, p.wz)), s, DMul(s, p.wx), p.dY>>,
           <<DMul(s, p.wy), DNeg(DMul(s, p.wx)), s, p.dZ>> >>

\* C11 as stated: section 2 of a report shows the coefficients and the
\* translations stored for the source_system the report was asked for.
C11_SubstitutedIsSourceFrame ==
    (out # NoReport /\ out.ok /\ call.source_system \in KnownFrames) =>
        out.report[1].substituted = SpecSubstituted(call.source_system)

\* Row i of the before/after table as the claim describes it: before[i]
\* next to after[i], six decimals each.
SpecTableRow(before, after, i) ==
    [Name |-> before[i].Name,
     X |-> Fmt6(before[i].X), Y |-> Fmt6(before[i].Y), Z |-> Fmt6(before[i].Z),
     X1 |-> Fmt6(after[i].X), Y1 |-> Fmt6(after[i].Y), Z1 |-> Fmt6(after[i].Z)]

\* C12: a report for a batch of n >= 1 rows and its n transformed rows is
\* produced, its table has exactly min(10, n) rows, row i pairing before[i]
\* with after[i] in input order, and its statistics are those of all n
\* transformed rows (their count, sums and sums of squares per column).
C12_TableHeadStatisticsAll ==
    LET before == call.df_before.rows
        after == call.df_after.rows
        n == Len(before)
    IN  (out # NoReport /\ n >= 1 /\ Len(after) = n) =>
            /\ out.ok
            /\ Len(out.report[1].table) = Min(10, n)
            /\ \A i \in 1..Min(10, n) :
                  out.report[1].table[i] = SpecTableRow(before, after, i)
            /\ out.report[1].statistics.count = n
            /\ \A c \in {"X", "Y", "Z"} :
                  /\ out.report[1].statistics.sum[c] =
                        DSum([i \in 1..n |-> after[i][c]])
                  /\ out.report[1].statistics.sumsq[c] =
                        DSum([i \in 1..n |-> DMul(after[i][c], after[i][c])])

\* A report for twelve rows: ten of them in the table, all twelve counted.
C12_Witness ==
    /\ out # NoReport
    /\ out.ok
    /\ Len(call.df_before.rows) = 12
    /\ Len(call.df_after.rows) = 12
    /\ Len(out.report[1].table) = 10
    /\ out.report[1].table[10].Name = call.df_before.rows[10].Name
    /\ out.report[1].statistics.count = 12

====
